---- MODULE Spec2Model ----
(***************************************************************************)
(* Model of example/pages/4_Editable_table.py: the JSON column codec and   *)
(* DynamoDBTableEditor, whose edit() reconciles the grid's diff with the   *)
(* store once per render cycle (one execution of the page script).         *)
(***************************************************************************)
EXTENDS Integers, Sequences, FiniteSets, TLC

(***************************************************************************)
(* Values.  A cell is a tagged value: k is the Python type ("list", "str", *)
(* "num", "null"), s the items of a list (or the number), a the characters *)
(* of a str.  Text is a sequence of one-character strings, so that         *)
(* json.loads is a parser and json.dumps a printer.                        *)
(***************************************************************************)
L(s) == [k |-> "list", s |-> s, a |-> <<>>]
T(a) == [k |-> "str", s |-> <<>>, a |-> a]
N(n) == [k |-> "num", s |-> <<n>>, a |-> <<>>]
NullV == [k |-> "null", s |-> <<>>, a |-> <<>>]
Tup(s) == [k |-> "tuple", s |-> s, a |-> <<>>]

Digits == <<"0", "1", "2", "3", "4", "5", "6", "7", "8", "9">>
IsDigit(c) == \E d \in 1..Len(Digits) : Digits[d] = c
DigitVal(c) == (CHOOSE d \in 1..Len(Digits) : Digits[d] = c) - 1

\* json.dumps(o), for the values of the model: "[1, 2]", "null", "7", "\"ab\""
RECURSIVE DumpItems(_)
DumpItems(s) ==
    IF s = <<>> THEN <<>>
    ELSE IF Len(s) = 1 THEN <<Digits[s[1] + 1]>>
    ELSE <<Digits[s[1] + 1], ",", " ">> \o DumpItems(Tail(s))

JsonDumps(o) ==
    CASE o.k \in {"list", "tuple"} -> <<"[">> \o DumpItems(o.s) \o <<"]">>
      [] o.k = "num"  -> <<Digits[o.s[1] + 1]>>
      [] o.k = "str"  -> <<"\"">> \o o.a \o <<"\"">>
      [] OTHER        -> <<"n", "u", "l", "l">>

\* json.loads(s): a recursive-descent parser of the same subset of JSON
\* (null, one-digit numbers, strings without escapes, flat lists of numbers)
\* with JSON's optional white space.  ok = FALSE is json.JSONDecodeError.
LoadFail == [ok |-> FALSE, v |-> NullV, i |-> 0]

RECURSIVE SkipWs(_, _)
SkipWs(t, i) == IF i <= Len(t) /\ t[i] = " " THEN SkipWs(t, i + 1) ELSE i

RECURSIVE StringEnd(_, _)
StringEnd(t, i) ==
    IF i > Len(t) THEN 0 ELSE IF t[i] = "\"" THEN i ELSE StringEnd(t, i + 1)

ParseScalar(t, i) ==
    IF i <= Len(t) /\ IsDigit(t[i])
    THEN [ok |-> TRUE, v |-> N(DigitVal(t[i])), i |-> i + 1]
    ELSE IF i + 3 <= Len(t) /\ SubSeq(t, i, i + 3) = <<"n", "u", "l", "l">>
    THEN [ok |-> TRUE, v |-> NullV, i |-> i + 4]
    ELSE IF i <= Len(t) /\ t[i] = "\"" /\ StringEnd(t, i + 1) > 0
    THEN [ok |-> TRUE, v |-> T(SubSeq(t, i + 1, StringEnd(t, i + 1) - 1)),
          i |-> StringEnd(t, i + 1) + 1]
    ELSE LoadFail

RECURSIVE ParseItems(_, _, _)
ParseItems(t, i, acc) ==
    IF ~(i <= Len(t) /\ IsDigit(t[i])) THEN LoadFail
    ELSE LET items == Append(acc, DigitVal(t[i]))
             j == SkipWs(t, i + 1)
         IN  IF j <= Len(t) /\ t[j] = ","
             THEN ParseItems(t, SkipWs(t, j + 1), items)
             ELSE IF j <= Len(t) /\ t[j] = "]"
             THEN [ok |-> TRUE, v |-> L(items), i |-> j + 1]
             ELSE LoadFail

ParseList(t, i) ==
    LET j == SkipWs(t, i + 1)
    IN  IF j <= Len(t) /\ t[j] = "]"
        THEN [ok |-> TRUE, v |-> L(<<>>), i |-> j + 1]
        ELSE ParseItems(t, j, <<>>)

JsonLoads(t) ==
    LET i == SkipWs(t, 1)
        r == IF i <= Len(t) /\ t[i] = "[" THEN ParseList(t, i)
             ELSE ParseScalar(t, i)
    IN  IF r.ok /\ SkipWs(t, r.i) = Len(t) + 1 THEN r ELSE LoadFail

Txt1 == <<"[", "1", "]">>
Txt1w == <<"[", " ", "1", "]">>
Txt2 == <<"[", "2", "]">>
TxtBad == <<"{", "b", "a", "d">>

(***************************************************************************)
(* Tables.  A DataFrame is a sequence of rows [idx, row]: idx is the row   *)
(* key (the DataFrame index), row maps column names to cells.              *)
(***************************************************************************)
\* connection.items(): the table the store returns to a new session
StoreItems ==
    << [idx |-> <<"a">>, row |-> [tags |-> L(<<1>>), n |-> T(<<"p">>)]],
       [idx |-> <<"b">>, row |-> [tags |-> L(<<2>>), n |-> T(<<"q">>)]] >>

Positions == 0..(Len(StoreItems) - 1)

\* isinstance(value, (Mapping, Sequence)) and not isinstance(value, (str, ...))
IsStructured(value) ==
    value.k \in {"dict", "list", "tuple", "str"} /\ value.k \notin {"str"}

\* the columns of the FIRST row that hold a structured value
GetJsonSerializableCols(df) ==
    {label \in DOMAIN df[1].row : IsStructured(df[1].row[label])}

SerializeJsonCols(df, json_cols) ==
    [r \in DOMAIN df |->
        [df[r] EXCEPT !.row = [c \in DOMAIN @ |->
            IF c \in json_cols THEN T(JsonDumps(@[c])) ELSE @[c]]]]

\* lambda s: json.loads(s) if s is not None else None
DeserializerKeepsText(s) == [ok |-> TRUE, v |-> s, i |-> 0]
Deserializer(s) ==
    IF s.k = "null" THEN [ok |-> TRUE, v |-> NullV, i |-> 0] ELSE JsonLoads(s.a)

\* _deserialize_json_cols on a mapping: FALSE when it raises JSONError
DeserializeRowOk(data, json_cols) ==
    \A c \in json_cols \cap DOMAIN data : Deserializer(data[c]).ok

DeserializeRow(data, json_cols) ==
    [c \in DOMAIN data |->
        IF c \in json_cols THEN Deserializer(data[c]).v ELSE data[c]]

\* _deserialize_json_cols on a DataFrame
DeserializeJsonColsUnchecked(df, json_cols) == TRUE
DeserializeJsonColsOk(df, json_cols) ==
    \A r \in DOMAIN df : DeserializeRowOk(df[r].row, json_cols)

DeserializeJsonCols(df, json_cols) ==
    [r \in DOMAIN df |-> [df[r] EXCEPT !.row = DeserializeRow(@, json_cols)]]

(***************************************************************************)
(* The grid.  st.data_editor returns the display copy with the diff        *)
(* applied (cells of edited rows replaced, added rows appended, deleted    *)
(* positions dropped) and leaves the diff itself in the widget state.      *)
(***************************************************************************)
Columns == DOMAIN StoreItems[1].row

ApplyCellEdits(df, edited_rows) ==
    [r \in DOMAIN df |->
        IF \E e \in 1..Len(edited_rows) : edited_rows[e].idx = r - 1
        THEN LET e == CHOOSE x \in 1..Len(edited_rows) : edited_rows[x].idx = r - 1
             IN  [df[r] EXCEPT !.row = [c \in DOMAIN @ |->
                    IF c \in DOMAIN edited_rows[e].row
                    THEN edited_rows[e].row[c] ELSE @[c]]]
        ELSE df[r]]

ApplyRowAdditions(df, added_rows) ==
    df \o [a \in DOMAIN added_rows |->
            [idx |-> added_rows[a]["_index"].a,
             row |-> [c \in Columns |->
                        IF c \in DOMAIN added_rows[a] THEN added_rows[a][c]
                        ELSE NullV]]]

RECURSIVE KeepRows(_, _, _)
KeepRows(df, deleted, r) ==
    IF r > Len(df) THEN <<>>
    ELSE (IF \E x \in 1..Len(deleted) : deleted[x] = r - 1 THEN <<>> ELSE <<df[r]>>)
         \o KeepRows(df, deleted, r + 1)

DataEditor(df, diff) ==
    LET n == Len(df)
        all == ApplyRowAdditions(ApplyCellEdits(df, diff.edited_rows),
                                 diff.added_rows)
    IN  KeepRows(SubSeq(all, 1, n), diff.deleted_rows, 1) \o SubSeq(all, n + 1, Len(all))

(***************************************************************************)
(* The inputs: the diffs the grid may report in one render cycle.          *)
(***************************************************************************)
MaxEdited == 2
MaxAdded == 2
MaxDeleted == 1
MaxRuns == 2

SeqsUpTo(S, n) == UNION {[1..k -> S] : k \in 0..n}

\* edited_rows: position -> changed columns, in the dict's iteration order
EditedRowsInputs(texts, n) ==
    {e \in SeqsUpTo([idx : Positions, row : {[tags |-> T(t)] : t \in texts}], n) :
        \A x, y \in DOMAIN e : x # y => e[x].idx # e[y].idx}

\* added_rows: full rows, the key under "_index"
AddedRowsInputs(keys, texts, n) ==
    SeqsUpTo({[_index |-> T(key), tags |-> T(t)] : key \in keys, t \in texts}, n)

\* deleted_rows: positions, ascending
DeletedRowsInputs(n) ==
    {d \in SeqsUpTo(Positions, n) : \A x, y \in DOMAIN d : x < y => d[x] < d[y]}

\* A behaviour draws its diffs from one family, so that each bucket is
\* explored to its bound without the product of the three:
\*   "edited":   edited rows (two values, one of them in two spellings, and
\*               malformed text) with deletions, in one session;
\*   "added":    added rows (two keys, two values, malformed text), in one
\*               session;
\*   "mixed":    at most one entry per bucket, in one session;
\*   "sessions": at most one entry per diff (two values), in two sessions.
\* The first three are wide and run MaxRuns render cycles, the last is
\* narrow and runs one cycle more.
Families == {"edited", "added", "mixed", "sessions"}

DiffsOf(edited, added, deleted, max) ==
    {d \in [edited_rows : edited, added_rows : added, deleted_rows : deleted] :
        Len(d.edited_rows) + Len(d.added_rows) + Len(d.deleted_rows) <= max}

DiffsEdited ==
    DiffsOf(EditedRowsInputs({Txt1, Txt1w, Txt2, TxtBad}, MaxEdited), {<<>>},
            DeletedRowsInputs(MaxDeleted), MaxEdited + MaxDeleted)
DiffsAdded ==
    DiffsOf({<<>>}, AddedRowsInputs({<<"a">>, <<"c">>}, {Txt1, Txt2, TxtBad}, MaxAdded),
            {<<>>}, MaxAdded)
DiffsMixed ==
    DiffsOf(EditedRowsInputs({Txt1, Txt2}, 1), AddedRowsInputs({<<"c">>}, {Txt1}, 1),
            DeletedRowsInputs(MaxDeleted), 2 + MaxDeleted)
DiffsSessions ==
    DiffsOf(EditedRowsInputs({Txt1, Txt2}, 1),
            AddedRowsInputs({<<"c">>}, {Txt1, Txt2}, 1), DeletedRowsInputs(1), 1)

Diffs(family) ==
    CASE family = "edited" -> DiffsEdited
      [] family = "added" -> DiffsAdded
      [] family = "mixed" -> DiffsMixed
      [] OTHER -> DiffsSessions

\* the render cycles of a behaviour of the family
Depth(family) == IF family = "sessions" THEN MaxRuns + 1 ELSE MaxRuns

(***************************************************************************)
(* State.  The host framework runs the page script once per render cycle   *)
(* of a session, one cycle at a time (a render pass runs to completion);   *)
(* st.session_state is per session.  The dict and the two lists of an edit *)
(* info are objects: heap maps a reference to the contents of the three,   *)
(* and dict.copy() copies the references, not the containers.              *)
(***************************************************************************)
Sessions == {1, 2}
\* the sessions that render in a behaviour of the family
Rendering(f) == IF f = "sessions" THEN Sessions ELSE {1}
Refs == 0..Cardinality(Sessions)
NoRef == -1

VARIABLES
    family,         \* the family of diffs of this behaviour
    session_state,  \* per session: the data key and the processed-edits key
    heap,           \* contents of the edit-info containers, by reference
    classRef,       \* the containers of DynamoDBTableEditor._DEFAULT_EDIT_INFO
    edit_info,      \* the diff of the current render cycle
    cur,            \* the session of the current (or last) render cycle
    pc,             \* <<bucket, index>> of the entry process_edits is at
    outcome,        \* how the current render cycle ended
    runs,           \* render cycles started
    fetches,        \* per session: calls of connection.items()
    calls,          \* the store calls of the current render cycle, in order
    hist,           \* per session: the history of its store calls
    codec           \* a table on its way through the JSON column codec

vars == <<family, session_state, heap, classRef, edit_info, cur, pc, outcome, runs,
          fetches, calls, hist, codec>>

\* _DEFAULT_EDIT_INFO: {"edited_rows": {}, "added_rows": [], "deleted_rows": []}
DefaultEditInfo == [edited_rows |-> {}, added_rows |-> <<>>, deleted_rows |-> <<>>]

NoSessionState == [hasData |-> FALSE, data |-> <<>>, processed |-> NoRef]

EmptyDiff == [edited_rows |-> <<>>, added_rows |-> <<>>, deleted_rows |-> <<>>]

\* The history of a session: the calls it issued (invoked), those that
\* returned (applied), those issued more than once (reinvoked), those issued
\* again after they had returned (resent), the content last applied to each
\* key by modify_item (lastEdit) and by put_item (lastPut), and the calls of
\* its previous cycle (prev) with the diffs that cycle completed without
\* failure (completed: none or one).
NoHistory ==
    [invoked |-> {}, applied |-> {}, reinvoked |-> {}, resent |-> {},
     lastEdit |-> {}, lastPut |-> {}, prev |-> {}, completed |-> {}]

Idle == <<"idle", 0>>

\* no table is in the codec
NoCodec == [stage |-> "none", table |-> <<>>, json_cols |-> {}, df |-> <<>>]

Init ==
    /\ family \in Families
    /\ session_state = [s \in Sessions |-> NoSessionState]
    /\ heap = [r \in Refs |-> DefaultEditInfo]
    /\ classRef = 0
    /\ edit_info = EmptyDiff
    /\ cur = 1
    /\ pc = Idle
    /\ outcome = "none"
    /\ runs = 0
    /\ fetches = [s \in Sessions |-> 0]
    /\ calls = <<>>
    /\ hist = [s \in Sessions |-> NoHistory]
    /\ codec = NoCodec

\* the references the sessions hold
Held(ss) == {ss[s].processed : s \in Sessions} \ {NoRef}

\* The class statement (lines 50-59) is part of the page script, which the
\* framework executes from the top on every render cycle: each run evaluates
\* the three literals of _DEFAULT_EDIT_INFO anew.  The result is the
\* reference of the run's containers and the heap with them empty.
ClassStatementOnce(h, ref, held) == [ref |-> ref, heap |-> h]
ClassStatement(h, ref, held) ==
    LET new == CHOOSE r \in Refs \ held : \A q \in Refs \ held : r <= q
    IN  [ref |-> new, heap |-> [h EXCEPT ![new] = DefaultEditInfo]]

\* line 67: self.data_key in st.session_state
NeverCached(st) == FALSE
Cached(st) == st.hasData

\* __init__: fetch the table on the session's first construction
Construct(st) ==
    IF Cached(st) THEN st ELSE [st EXCEPT !.hasData = TRUE, !.data = StoreItems]

\* line 73: _serialize_json_cols(self.df.copy(), json_cols) assigns the
\* serialized columns to the copy; self.df, the snapshot, stays as it was
SerializedInPlace(df, serialized) == serialized
AfterCopy(df, serialized) == df

\* the processed_edits getter: when the key is absent it stores
\* _DEFAULT_EDIT_INFO.copy(), a new dict holding the class's own containers
ProcessedEdits(st, class) ==
    IF st.processed = NoRef THEN [st EXCEPT !.processed = class] ELSE st

EntryCount(info) ==
    Len(info.edited_rows) + Len(info.added_rows) + Len(info.deleted_rows)

\* the number of the entry at p among all the entries of the diff
EntryNo(info, p) ==
    CASE p[1] = "edited_rows"  -> p[2]
      [] p[1] = "added_rows"   -> Len(info.edited_rows) + p[2]
      [] p[1] = "deleted_rows" -> Len(info.edited_rows) + Len(info.added_rows) + p[2]
      [] OTHER -> p[2]

\* the first entry at or after <<bucket, i>>, in the order process_edits
\* iterates: edited_rows, added_rows, deleted_rows; "done" after the last
NextEntryDeletedBeforeAdded(info, bucket, i) ==
    IF bucket = "edited_rows" /\ i <= Len(info.edited_rows) THEN <<bucket, i>>
    ELSE IF bucket = "edited_rows" /\ Len(info.deleted_rows) > 0 THEN <<"deleted_rows", 1>>
    ELSE IF bucket = "edited_rows" /\ Len(info.added_rows) > 0 THEN <<"added_rows", 1>>
    ELSE IF bucket = "deleted_rows" /\ i <= Len(info.deleted_rows) THEN <<bucket, i>>
    ELSE IF bucket = "deleted_rows" /\ Len(info.added_rows) > 0 THEN <<"added_rows", 1>>
    ELSE IF bucket = "added_rows" /\ i <= Len(info.added_rows) THEN <<bucket, i>>
    ELSE <<"done", EntryCount(info) + 1>>
NextEntry(info, bucket, i) ==
    IF bucket = "edited_rows" /\ i <= Len(info.edited_rows) THEN <<bucket, i>>
    ELSE IF bucket = "edited_rows" /\ Len(info.added_rows) > 0 THEN <<"added_rows", 1>>
    ELSE IF bucket = "edited_rows" /\ Len(info.deleted_rows) > 0 THEN <<"deleted_rows", 1>>
    ELSE IF bucket = "added_rows" /\ i <= Len(info.added_rows) THEN <<bucket, i>>
    ELSE IF bucket = "added_rows" /\ Len(info.deleted_rows) > 0 THEN <<"deleted_rows", 1>>
    ELSE IF bucket = "deleted_rows" /\ i <= Len(info.deleted_rows) THEN <<bucket, i>>
    ELSE <<"done", EntryCount(info) + 1>>

Outcome(p) == IF p[1] = "done" THEN "ok" ELSE "running"

JsonCols(s) == GetJsonSerializableCols(session_state[s].data)
Df(s) == session_state[s].data
Processed(s) == heap[session_state[s].processed]

\* a store call as the history records it: the operation, the number of the
\* diff entry, the key and the item passed, and whether it returned
Call(op, n, key, item, ok) == [op |-> op, n |-> n, key |-> key, item |-> item, ok |-> ok]
Sig(c) == [op |-> c.op, key |-> c.key, item |-> c.item]
NoItem == <<>>

(***************************************************************************)
(* A render cycle starts: the script defines the class, constructs the     *)
(* editor and calls edit() up to the first diff entry of process_edits.    *)
(***************************************************************************)
Render(s, diff) ==
    /\ pc = Idle
    /\ runs < Depth(family)
    /\ LET class == ClassStatement(heap, classRef, Held(session_state))
           made == Construct(session_state[s])
           json_cols == GetJsonSerializableCols(made.data)
           df == SerializeJsonCols(made.data, json_cols)
           st == [made EXCEPT !.data = AfterCopy(made.data, df)]
           edited_df == DataEditor(df, diff)
       IN  /\ classRef' = class.ref
           /\ heap' = class.heap
           /\ fetches' = [fetches EXCEPT ![s] =
                            IF Cached(session_state[s]) THEN @ ELSE @ + 1]
           /\ IF ~DeserializeJsonColsOk(edited_df, json_cols)
              THEN \* lines 84-86: st.error(...); st.stop()
                   /\ session_state' = [session_state EXCEPT ![s] = st]
                   /\ pc' = <<"done", 0>>
                   /\ outcome' = "stopped"
              ELSE \* line 87: process_edits, up to its first entry
                   /\ session_state' =
                        [session_state EXCEPT ![s] = ProcessedEdits(st, class.ref)]
                   /\ pc' = NextEntry(diff, "edited_rows", 1)
                   /\ outcome' = Outcome(pc')
    /\ edit_info' = diff
    /\ cur' = s
    /\ runs' = runs + 1
    /\ UNCHANGED <<family, calls, hist, codec>>

\* A render cycle whose construction fails: connection.items() (line 68)
\* raises, nothing is stored under the data key, and the exception ends the
\* script run before edit() is called.
ConstructFails(s) ==
    /\ pc = Idle
    /\ runs < Depth(family)
    /\ ~Cached(session_state[s])
    /\ LET class == ClassStatement(heap, classRef, Held(session_state))
       IN  /\ classRef' = class.ref
           /\ heap' = class.heap
    /\ fetches' = [fetches EXCEPT ![s] = @ + 1]
    /\ pc' = <<"done", 0>>
    /\ outcome' = "FetchError"
    /\ edit_info' = EmptyDiff
    /\ cur' = s
    /\ runs' = runs + 1
    /\ UNCHANGED <<family, session_state, calls, hist, codec>>

\* the step after the entry at pc
Continue ==
    /\ pc' = NextEntry(edit_info, pc[1], pc[2] + 1)
    /\ outcome' = Outcome(pc')

\* an exception leaves process_edits and edit(): the cycle is over at this entry
Raise(what) ==
    /\ pc' = <<"done", EntryNo(edit_info, pc)>>
    /\ outcome' = what

\* line 46: raise JSONError(...) from e
SwallowJSONError == Continue
RaiseJSONError == Raise("JSONError")

Logged(c) ==
    /\ calls' = Append(calls, c)
    /\ hist' = [hist EXCEPT ![cur] =
            [@ EXCEPT !.invoked = @ \cup {Sig(c)},
                      !.applied = IF c.ok THEN @ \cup {Sig(c)} ELSE @,
                      !.reinvoked = IF Sig(c) \in hist[cur].invoked
                                    THEN @ \cup {Sig(c)} ELSE @,
                      !.resent = IF Sig(c) \in hist[cur].applied
                                 THEN @ \cup {Sig(c)} ELSE @,
                      !.lastEdit = IF c.ok /\ c.op = "modify_item"
                                   THEN {e \in @ : e[1] # c.key} \cup {<<c.key, c.item>>}
                                   ELSE @,
                      !.lastPut = IF c.ok /\ c.op = "put_item"
                                  THEN {e \in @ : e[1] # c.key} \cup {<<c.key, c.item>>}
                                  ELSE @]]

\* The store call precedes the statement that records the entry (lines
\* 121-122, 134-135, 145-146): when the call raises, the bucket stays as it
\* was before the call.
RecordedBeforeCall(ok, before, after) == after
RecordedAfterCall(ok, before, after) == IF ok THEN after ELSE before

Frame ==
    UNCHANGED <<family, session_state, classRef, edit_info, cur, runs, fetches, codec>>

(***************************************************************************)
(* process_edits, one diff entry per step.                                 *)
(***************************************************************************)
EditedEntry == edit_info.edited_rows[pc[2]]

\* self.df.index[int(idx)]: the key of the row at position idx of the snapshot
IndexValElsewhere(df, idx) == df[Len(df) - idx].idx
IndexVal(df, idx) == df[idx + 1].idx

\* idx in processed_edited_rows and processed_edited_rows[idx] == edited_row
EditNeverProcessed(processed_edited_rows, idx, edited_row) == FALSE
EditAlreadyProcessed(processed_edited_rows, idx, edited_row) ==
    <<idx, edited_row>> \in processed_edited_rows

\* processed_edited_rows[idx] = edited_row
SetItemLost(processed_edited_rows, idx, edited_row) == processed_edited_rows
SetItemAlone(processed_edited_rows, idx, edited_row) == {<<idx, edited_row>>}
SetItem(processed_edited_rows, idx, edited_row) ==
    {e \in processed_edited_rows : e[1] # idx} \cup {<<idx, edited_row>>}

\* the row of the diff entry at p: an edited row's changed columns or an added row
EntryRow(info, p) ==
    IF p[1] = "edited_rows" THEN info.edited_rows[p[2]].row ELSE info.added_rows[p[2]]

\* lines 115 and 128: _deserialize_json_cols raises JSONError, which nothing
\* in process_edits, nor in edit() after line 86, catches
DiffEntryJSONError ==
    /\ pc[1] \in {"edited_rows", "added_rows"}
    /\ ~DeserializeRowOk(EntryRow(edit_info, pc), JsonCols(cur))
    /\ RaiseJSONError
    /\ UNCHANGED <<heap, calls, hist>>
    /\ Frame

\* lines 116-120: the edit was already processed
EditedRowSkip ==
    /\ pc[1] = "edited_rows"
    /\ DeserializeRowOk(EditedEntry.row, JsonCols(cur))
    /\ EditAlreadyProcessed(Processed(cur).edited_rows, EditedEntry.idx,
                            DeserializeRow(EditedEntry.row, JsonCols(cur)))
    /\ Continue
    /\ UNCHANGED <<heap, calls, hist>>
    /\ Frame

\* lines 121-122: connection.modify_item, which returns (ok) or raises
ModifyItem(ok) ==
    /\ pc[1] = "edited_rows"
    /\ DeserializeRowOk(EditedEntry.row, JsonCols(cur))
    /\ LET idx == EditedEntry.idx
           index_val == IndexVal(Df(cur), idx)
           edited_row == DeserializeRow(EditedEntry.row, JsonCols(cur))
           ref == session_state[cur].processed
       IN  /\ ~EditAlreadyProcessed(heap[ref].edited_rows, idx, edited_row)
           /\ Logged(Call("modify_item", EntryNo(edit_info, pc), index_val, edited_row, ok))
           /\ heap' = [heap EXCEPT ![ref].edited_rows =
                            RecordedAfterCall(ok, @, SetItem(@, idx, edited_row))]
           /\ IF ok THEN Continue ELSE Raise("StoreError")
    /\ Frame

AddedEntry == edit_info.added_rows[pc[2]]

\* added_row.pop("_index"): the row without the key column
Pop(added_row) == [c \in DOMAIN added_row \ {"_index"} |-> added_row[c]]

\* json.dumps(added_row, sort_keys=True): the columns in sorted order, each
\* with the JSON text of its value
SortedColumns == <<"n", "tags">>
AddedRowRepr(added_row) ==
    LET keys == SelectSeq(SortedColumns, LAMBDA c : c \in DOMAIN added_row)
    IN  [x \in DOMAIN keys |-> <<keys[x], JsonDumps(added_row[keys[x]])>>]

\* added_row_repr in processed_added_rows
AddNeverProcessed(processed_added_rows, added_row) == FALSE
AddAlreadyProcessed(processed_added_rows, added_row) ==
    \E x \in DOMAIN processed_added_rows :
        processed_added_rows[x] = AddedRowRepr(added_row)

\* lines 131-133
AddedRowSkip ==
    /\ pc[1] = "added_rows"
    /\ DeserializeRowOk(AddedEntry, JsonCols(cur))
    /\ AddAlreadyProcessed(Processed(cur).added_rows,
                           Pop(DeserializeRow(AddedEntry, JsonCols(cur))))
    /\ Continue
    /\ UNCHANGED <<heap, calls, hist>>
    /\ Frame

\* lines 134-135: connection.put_item
PutItem(ok) ==
    /\ pc[1] = "added_rows"
    /\ DeserializeRowOk(AddedEntry, JsonCols(cur))
    /\ LET row == DeserializeRow(AddedEntry, JsonCols(cur))
           keys == row["_index"].a
           added_row == Pop(row)
           ref == session_state[cur].processed
       IN  /\ ~AddAlreadyProcessed(heap[ref].added_rows, added_row)
           /\ Logged(Call("put_item", EntryNo(edit_info, pc), keys, added_row, ok))
           /\ heap' = [heap EXCEPT ![ref].added_rows =
                            RecordedAfterCall(ok, @, Append(@, AddedRowRepr(added_row)))]
           /\ IF ok THEN Continue ELSE Raise("StoreError")
    /\ Frame

DeletedEntry == edit_info.deleted_rows[pc[2]]

\* index_val in processed_deleted_rows
DeleteNeverProcessed(processed_deleted_rows, index_val) == FALSE
DeleteAlreadyProcessed(processed_deleted_rows, index_val) ==
    \E x \in DOMAIN processed_deleted_rows : processed_deleted_rows[x] = index_val

\* lines 142-144
DeletedRowSkip ==
    /\ pc[1] = "deleted_rows"
    /\ DeleteAlreadyProcessed(Processed(cur).deleted_rows, IndexVal(Df(cur), DeletedEntry))
    /\ Continue
    /\ UNCHANGED <<heap, calls, hist>>
    /\ Frame

\* lines 145-146: connection.del_item
DelItem(ok) ==
    /\ pc[1] = "deleted_rows"
    /\ LET index_val == IndexVal(Df(cur), DeletedEntry)
           ref == session_state[cur].processed
       IN  /\ ~DeleteAlreadyProcessed(heap[ref].deleted_rows, index_val)
           /\ Logged(Call("del_item", EntryNo(edit_info, pc), index_val, NoItem, ok))
           /\ heap' = [heap EXCEPT ![ref].deleted_rows =
                            RecordedAfterCall(ok, @, Append(@, index_val))]
           /\ IF ok THEN Continue ELSE Raise("StoreError")
    /\ Frame

\* the script run is over (edit() returned, st.stop() or an exception ended
\* it): the framework waits for the session's next interaction
EndCycle ==
    /\ pc[1] = "done"
    /\ pc' = Idle
    /\ outcome' = "none"
    /\ edit_info' = EmptyDiff
    /\ calls' = <<>>
    /\ hist' = [hist EXCEPT
                    ![cur].prev =
                        {[op |-> calls[x].op, key |-> calls[x].key,
                          item |-> calls[x].item, ok |-> calls[x].ok] : x \in DOMAIN calls},
                    ![cur].completed = IF outcome = "ok" THEN {edit_info} ELSE {}]
    /\ UNCHANGED <<family, session_state, heap, classRef, cur, runs, fetches, codec>>

\* the session ends: the framework discards its st.session_state, and the
\* containers only it held are garbage
SessionEnd(s) ==
    /\ pc = Idle
    /\ session_state[s] # NoSessionState
    /\ session_state' = [session_state EXCEPT ![s] = NoSessionState]
    /\ heap' = IF session_state[s].processed \in Refs \ {classRef}
               THEN [heap EXCEPT ![session_state[s].processed] = DefaultEditInfo]
               ELSE heap
    /\ fetches' = [fetches EXCEPT ![s] = 0]
    /\ hist' = [hist EXCEPT ![s] = NoHistory]
    /\ UNCHANGED <<family, classRef, edit_info, cur, pc, outcome, runs, calls, codec>>

Next ==
    \/ \E s \in Rendering(family), diff \in Diffs(family) : Render(s, diff)
    \/ \E s \in Rendering(family) : ConstructFails(s)
    \/ DiffEntryJSONError
    \/ EditedRowSkip
    \/ \E ok \in BOOLEAN : ModifyItem(ok)
    \/ AddedRowSkip
    \/ \E ok \in BOOLEAN : PutItem(ok)
    \/ DeletedRowSkip
    \/ \E ok \in BOOLEAN : DelItem(ok)
    \/ EndCycle
    \/ \E s \in Sessions : SessionEnd(s)

Spec == Init /\ [][Next]_vars

(***************************************************************************)
(* The codec alone: a table of up to MaxRows rows, any set of its columns  *)
(* as the JSON columns, serialized (line 73) and deserialized (line 83).   *)
(***************************************************************************)
MaxRows == 2

\* the cells of a table: lists, a tuple, None, text
Cells == {L(<<>>), L(<<1, 2>>), Tup(<<1>>), NullV, T(<<"p">>)}

Tables ==
    UNION {[1..n -> [idx : {<<"a">>}, row : [Columns -> Cells]]] : n \in 1..MaxRows}

CodecInit ==
    /\ codec \in [stage : {"table"}, table : Tables, json_cols : SUBSET Columns,
                  df : {<<>>}]
    /\ family = "edited"
    /\ session_state = [s \in Sessions |-> NoSessionState]
    /\ heap = [r \in Refs |-> DefaultEditInfo]
    /\ classRef = 0
    /\ edit_info = EmptyDiff
    /\ cur = 1
    /\ pc = Idle
    /\ outcome = "none"
    /\ runs = 0
    /\ fetches = [s \in Sessions |-> 0]
    /\ calls = <<>>
    /\ hist = [s \in Sessions |-> NoHistory]

CodecFrame ==
    UNCHANGED <<family, session_state, heap, classRef, edit_info, cur, pc, outcome,
                runs, fetches, calls, hist>>

\* _serialize_json_cols(self.df.copy(), json_cols)
Serialize ==
    /\ codec.stage = "table"
    /\ codec' = [codec EXCEPT !.stage = "serialized",
                              !.df = SerializeJsonCols(codec.table, codec.json_cols)]
    /\ CodecFrame

\* _deserialize_json_cols(df, json_cols), which returns or raises JSONError
Deserialize ==
    /\ codec.stage = "serialized"
    /\ codec' = IF DeserializeJsonColsOk(codec.df, codec.json_cols)
                THEN [codec EXCEPT !.stage = "deserialized",
                                   !.df = DeserializeJsonCols(codec.df, codec.json_cols)]
                ELSE [codec EXCEPT !.stage = "JSONError"]
    /\ CodecFrame

CodecNext == Serialize \/ Deserialize

CodecSpec == CodecInit /\ [][CodecNext]_vars

(***************************************************************************)
(* Vocabulary of the properties.                                           *)
(***************************************************************************)
\* the store call each entry of a diff asks for
EditedSig(s, e) ==
    [op |-> "modify_item", key |-> Df(s)[e.idx + 1].idx,
     item |-> DeserializeRow(e.row, JsonCols(s))]
AddedSig(s, r) ==
    [op |-> "put_item", key |-> r["_index"].a,
     item |-> Pop(DeserializeRow(r, JsonCols(s)))]
DeletedSig(s, p) == [op |-> "del_item", key |-> Df(s)[p + 1].idx, item |-> NoItem]

DiffSigs(s, info) ==
    {EditedSig(s, info.edited_rows[x]) : x \in DOMAIN info.edited_rows}
    \cup {AddedSig(s, info.added_rows[x]) : x \in DOMAIN info.added_rows}
    \cup {DeletedSig(s, info.deleted_rows[x]) : x \in DOMAIN info.deleted_rows}

\* the cycle is over / is over and nothing failed
CycleOver == pc[1] = "done"
CycleOk == pc[1] = "done" /\ outcome = "ok"

\* entry number n of the current diff got a store call in this cycle
CalledAt(n) == \E x \in DOMAIN calls : calls[x].n = n
CalledSig(sig) == \E x \in DOMAIN calls : Sig(calls[x]) = sig

WithOk(sig, ok) == [op |-> sig.op, key |-> sig.key, item |-> sig.item, ok |-> ok]

\* the call is in the applied-edits record of session s
Recorded(s, c) ==
    LET rec == Processed(s)
    IN  CASE c.op = "modify_item" ->
                \E e \in rec.edited_rows : Df(s)[e[1] + 1].idx = c.key /\ e[2] = c.item
          [] c.op = "put_item" ->
                \E x \in DOMAIN rec.added_rows : rec.added_rows[x] = AddedRowRepr(c.item)
          [] OTHER ->
                \E x \in DOMAIN rec.deleted_rows : rec.deleted_rows[x] = c.key

\* the numbers of the diff entries whose JSON column holds malformed text
MalformedEntries(s, info) ==
    {x \in DOMAIN info.edited_rows :
        ~DeserializeRowOk(info.edited_rows[x].row, JsonCols(s))}
    \cup {Len(info.edited_rows) + x : x \in
            {y \in DOMAIN info.added_rows :
                ~DeserializeRowOk(info.added_rows[y], JsonCols(s))}}

\* the edited display copy the grid returns holds malformed text
MalformedInCopy(s, info) ==
    /\ session_state[s].hasData
    /\ LET copy == DataEditor(SerializeJsonCols(Df(s), JsonCols(s)), info)
       IN  \E r \in DOMAIN copy : ~DeserializeRowOk(copy[r].row, JsonCols(s))

(***************************************************************************)
(* C1.  An edited-row entry whose modify_item returned in the previous     *)
(* render cycle of the session gets no modify_item in the cycle after it.  *)
(***************************************************************************)
C1_NoSecondPartialUpdate ==
    \A x \in DOMAIN calls :
        calls[x].op = "modify_item" => WithOk(Sig(calls[x]), TRUE) \notin hist[cur].prev

\* a completed cycle re-reported an entry applied in the cycle before, and skipped it
C1_ReReportedEntrySkipped ==
    /\ CycleOk
    /\ \E x \in DOMAIN edit_info.edited_rows :
        /\ WithOk(EditedSig(cur, edit_info.edited_rows[x]), TRUE) \in hist[cur].prev
        /\ ~CalledAt(x)

C3_DeleteAtMostOnce ==
    \A s \in Sessions : \A sig \in hist[s].reinvoked : sig.op # "del_item"

\* C3, amended: once del_item has returned for a row key, the session never
\* issues it again for that key.
C3_NoDeleteAfterSuccess ==
    \A s \in Sessions : \A sig \in hist[s].resent : sig.op # "del_item"

\* a completed cycle reported the deletion of a key already deleted, and skipped it
C3_RepeatedDeleteSkipped ==
    /\ CycleOk
    /\ \E x \in DOMAIN edit_info.deleted_rows :
        /\ DeletedSig(cur, edit_info.deleted_rows[x]) \in hist[cur].applied
        /\ ~CalledAt(Len(edit_info.edited_rows) + Len(edit_info.added_rows) + x)

(***************************************************************************)
(* C4.  As claimed: a (position, content) pair that modify_item applied is *)
(* never passed to modify_item again in the session.                       *)
(***************************************************************************)
C4_AppliedEditNeverResent ==
    \A s \in Sessions : \A sig \in hist[s].resent : sig.op # "modify_item"

\* C4, amended: modify_item is never issued for a pair that is the content
\* last applied to its position (it is issued again once another content was
\* applied to the position in between).
C4_NotResentWhileLatest ==
    [][\A c \in {calls'[x] : x \in DOMAIN calls' \ DOMAIN calls} :
          c.op = "modify_item" => <<c.key, c.item>> \notin hist[cur].lastEdit]_vars

\* a completed cycle skipped a pair that was applied before the previous cycle
C4_EarlierEditSkipped ==
    /\ CycleOk
    /\ \E x \in DOMAIN edit_info.edited_rows :
        LET sig == EditedSig(cur, edit_info.edited_rows[x])
        IN  /\ sig \in hist[cur].applied
            /\ WithOk(sig, TRUE) \notin hist[cur].prev
            /\ ~CalledAt(x)

(***************************************************************************)
(* C5.  As claimed: when a cycle completes without failure, the store      *)
(* call of every entry of its diff has been issued exactly once in the     *)
(* session so far.                                                         *)
(***************************************************************************)
C5_EachEntryExactlyOnce ==
    CycleOk =>
        \A sig \in DiffSigs(cur, edit_info) :
            sig \in hist[cur].invoked \ hist[cur].reinvoked

(***************************************************************************)
(* C6.  The applied-edits record of a session holds only what the          *)
(* session's own store calls applied (a new session's record is empty), no *)
(* two sessions hold the same containers, and every entry of a cycle that  *)
(* completed was applied by a store call of the session itself.            *)
(***************************************************************************)
C6_RecordScopedToSession ==
    /\ \A s \in Sessions : session_state[s].processed # NoRef =>
        LET rec == Processed(s)
            own == hist[s].applied
        IN  /\ \A e \in rec.edited_rows : \E sig \in own :
                    /\ sig.op = "modify_item"
                    /\ sig.key = Df(s)[e[1] + 1].idx
                    /\ sig.item = e[2]
            /\ \A x \in DOMAIN rec.added_rows : \E sig \in own :
                    sig.op = "put_item" /\ AddedRowRepr(sig.item) = rec.added_rows[x]
            /\ \A x \in DOMAIN rec.deleted_rows : \E sig \in own :
                    sig.op = "del_item" /\ sig.key = rec.deleted_rows[x]
    /\ \A s, t \in Sessions :
        s # t /\ session_state[s].processed # NoRef =>
            session_state[s].processed # session_state[t].processed
    /\ CycleOk =>
        \A sig \in DiffSigs(cur, edit_info) : \E own \in hist[cur].applied :
            /\ own.op = sig.op
            /\ IF sig.op = "put_item" THEN AddedRowRepr(own.item) = AddedRowRepr(sig.item)
               ELSE own = sig

\* two live sessions have each applied the same entry with a store call of their own
C6_BothSessionsApplied ==
    /\ \A s \in Sessions : session_state[s].processed # NoRef
    /\ hist[1].applied \cap hist[2].applied # {}

(***************************************************************************)
(* C7.  As claimed: a failed store call ends the cycle with the store's    *)
(* error and leaves the entry out of the record; the calls that returned   *)
(* earlier in that cycle are not issued again in the next cycle; and when  *)
(* the next cycle reports the entry again (and completes), it issues the   *)
(* same call again.                                                        *)
(***************************************************************************)
C7_FailedCallRetried ==
    /\ \A x \in DOMAIN calls : ~calls[x].ok =>
        /\ x = Len(calls)
        /\ CycleOver
        /\ outcome = "StoreError"
        /\ ~Recorded(cur, calls[x])
    /\ (\E c \in hist[cur].prev : ~c.ok) =>
        \A c \in hist[cur].prev : c.ok => ~CalledSig(Sig(c))
    /\ CycleOk =>
        \A c \in hist[cur].prev :
            ~c.ok /\ Sig(c) \in DiffSigs(cur, edit_info) => CalledSig(Sig(c))

(***************************************************************************)
(* C8.  No store call is issued for a diff entry that comes after an entry *)
(* with malformed JSON text; when the JSONError ends the cycle, the calls  *)
(* issued before it have all returned and are in the applied-edits record. *)
(***************************************************************************)
C8_JSONErrorAbortsRest ==
    /\ \A x \in DOMAIN calls : \A m \in MalformedEntries(cur, edit_info) : calls[x].n < m
    /\ CycleOver /\ outcome = "JSONError" =>
        /\ pc[2] \in MalformedEntries(cur, edit_info)
        /\ \A x \in DOMAIN calls :
            /\ calls[x].ok
            /\ Sig(calls[x]) \in hist[cur].applied
            /\ Recorded(cur, calls[x])

\* a cycle ended by a JSONError after it had committed an earlier entry
C8_PartlyAppliedCycle ==
    CycleOver /\ outcome = "JSONError" /\ calls # <<>>

(***************************************************************************)
(* C9.  As claimed: no JSONError leaves edit() uncaught.                   *)
(***************************************************************************)
C9_NoJSONErrorEscapes == outcome # "JSONError"

C11_FetchedExactlyOnce ==
    \A s \in Sessions :
        /\ fetches[s] <= 1
        /\ session_state[s].hasData => fetches[s] = 1

\* C11, amended: a session holds a snapshot only after a fetch, the snapshot
\* is the table that fetch returned, and once connection.items() has returned
\* in a session no later construction of that session invokes it again.
C11_NoFetchAfterSuccess ==
    /\ [](\A s \in Sessions :
            session_state[s].hasData =>
                fetches[s] >= 1 /\ session_state[s].data = StoreItems)
    /\ [][\A s \in Sessions :
            session_state[s].hasData /\ session_state'[s].hasData =>
                /\ fetches'[s] = fetches[s]
                /\ session_state'[s].data = session_state[s].data]_vars

\* a later render cycle of a session runs on the snapshot of its one fetch
C11_LaterCycleReusesSnapshot ==
    /\ pc # Idle
    /\ outcome # "FetchError"
    /\ calls = <<>>
    /\ hist[cur].invoked # {}
    /\ fetches[cur] = 1

(***************************************************************************)
(* C12.  As claimed: deserializing the serialized table gives the table    *)
(* back (and never raises), for every table and set of JSON columns.       *)
(***************************************************************************)
C12_RoundTrip ==
    /\ codec.stage # "JSONError"
    /\ codec.stage = "deserialized" => codec.df = codec.table

\* the JSON columns of the table hold no value that JSON encodes as another
\* type's text (a tuple is written as an array)
JsonNative(table, json_cols) ==
    \A r \in DOMAIN table : \A c \in json_cols : table[r].row[c].k # "tuple"

\* C12, amended: deserializing the serialized table never raises, and gives
\* the table back when its JSON columns hold JSON-native values (lists, text,
\* numbers, None); a tuple comes back as a list.
C12_RoundTripOfNativeValues ==
    /\ codec.stage # "JSONError"
    /\ codec.stage = "deserialized" =>
        /\ JsonNative(codec.table, codec.json_cols) => codec.df = codec.table
        /\ \A r \in DOMAIN codec.table : \A c \in Columns :
            LET was == codec.table[r].row[c]
                is == codec.df[r].row[c]
            IN  /\ codec.df[r].idx = codec.table[r].idx
                /\ IF c \in codec.json_cols /\ was.k = "tuple"
                   THEN is = L(was.s)
                   ELSE is = was

\* a table with a list and a None in its JSON columns went through the codec
C12_ListAndNullRoundTripped ==
    /\ codec.stage = "deserialized"
    /\ JsonNative(codec.table, codec.json_cols)
    /\ \E r, q \in DOMAIN codec.table : \E c, d \in codec.json_cols :
        codec.table[r].row[c].k = "list" /\ codec.table[q].row[d].k = "null"

\* session s lives on from this state to the next, with its record
KeepsRecord(s) ==
    /\ session_state[s].processed # NoRef
    /\ session_state'[s].processed = session_state[s].processed

\* nothing is taken out of the added-rows and deleted-rows buckets of s, and
\* no position out of its edited-rows bucket
BucketsGrow(s) ==
    LET was == heap[session_state[s].processed]
        is == heap'[session_state[s].processed]
    IN  /\ Len(is.added_rows) >= Len(was.added_rows)
        /\ SubSeq(is.added_rows, 1, Len(was.added_rows)) = was.added_rows
        /\ Len(is.deleted_rows) >= Len(was.deleted_rows)
        /\ SubSeq(is.deleted_rows, 1, Len(was.deleted_rows)) = was.deleted_rows
        /\ {e[1] : e \in was.edited_rows} \subseteq {e[1] : e \in is.edited_rows}

(***************************************************************************)
(* C13.  As claimed: while a session lives, no step takes an item out of   *)
(* any bucket of its applied-edits record; an edited (position, content)   *)
(* pair, once recorded, stays recorded.                                    *)
(***************************************************************************)
C13_NothingEverRemoved ==
    [][\A s \in Sessions : KeepsRecord(s) =>
          /\ BucketsGrow(s)
          /\ heap[session_state[s].processed].edited_rows
                \subseteq heap'[session_state[s].processed].edited_rows]_vars

\* C13, amended: while a session lives, no step takes an added-row
\* representation or a deleted key out of its record, nor a position out of
\* the edited-rows bucket; the content recorded for a position is replaced
\* only by the content a later modify_item applied to that position.
C13_BucketsGrowLatestEditKept ==
    [][\A s \in Sessions : KeepsRecord(s) =>
          /\ BucketsGrow(s)
          /\ \A e \in heap[session_state[s].processed].edited_rows :
                \/ e \in heap'[session_state[s].processed].edited_rows
                \/ /\ Len(calls') = Len(calls) + 1
                   /\ LET c == calls'[Len(calls')]
                      IN  /\ c.op = "modify_item" /\ c.ok /\ s = cur
                          /\ c.key = Df(s)[e[1] + 1].idx
                          /\ <<e[1], c.item>> \in
                                heap'[session_state[s].processed].edited_rows]_vars

\* a cycle that issued calls is over, and the record still holds an entry
\* that an earlier cycle of the session applied
C13_EarlierEntriesKept ==
    /\ CycleOver
    /\ calls # <<>>
    /\ session_state[cur].processed # NoRef
    /\ \E sig \in hist[cur].applied : ~CalledSig(sig) /\ Recorded(cur, sig)

\* the position the diff reports for its entry number n (edited or deleted)
ReportedPosition(info, n) ==
    IF n <= Len(info.edited_rows) THEN info.edited_rows[n].idx
    ELSE info.deleted_rows[n - Len(info.edited_rows) - Len(info.added_rows)]

(***************************************************************************)
(* C14.  The key of every modify_item and del_item call is the key of the  *)
(* row at the reported position of the table fetched at session start,     *)
(* whatever was edited, added or deleted before.                           *)
(***************************************************************************)
C14_KeyFromOriginalSnapshot ==
    \A x \in DOMAIN calls :
        calls[x].op \in {"modify_item", "del_item"} =>
            calls[x].key = StoreItems[ReportedPosition(edit_info, calls[x].n) + 1].idx

\* after the row at position 0 was deleted in an earlier cycle, a call for
\* position 1 still carries the key of the snapshot's second row
C14_ResolvedAfterEarlierDelete ==
    /\ \E sig \in hist[cur].applied :
        sig.op = "del_item" /\ sig.key = StoreItems[1].idx /\ ~CalledSig(sig)
    /\ \E x \in DOMAIN calls :
        /\ calls[x].op \in {"modify_item", "del_item"}
        /\ ReportedPosition(edit_info, calls[x].n) = 1
        /\ calls[x].key = StoreItems[2].idx

\* the place of a store operation in the order of the three loops
BucketRank(op) ==
    CASE op = "modify_item" -> 1
      [] op = "put_item"    -> 2
      [] OTHER              -> 3

(***************************************************************************)
(* C15.  In a render cycle every modify_item call precedes every put_item  *)
(* call, and every put_item call every del_item call.                      *)
(***************************************************************************)
C15_BucketOrder ==
    \A x, y \in DOMAIN calls :
        x < y => BucketRank(calls[x].op) <= BucketRank(calls[y].op)

\* one cycle issued a call of each kind
C15_AllThreeKindsCalled ==
    /\ CycleOver
    /\ \A op \in {"modify_item", "put_item", "del_item"} :
        \E x \in DOMAIN calls : calls[x].op = op

(***************************************************************************)
(* C16.  A session's snapshot is the table as it was fetched, after any    *)
(* render cycles: same rows in the same order, same keys, and the          *)
(* structured values of the JSON columns (not their JSON text).            *)
(***************************************************************************)
C16_SnapshotUnchanged ==
    \A s \in Sessions :
        session_state[s].hasData =>
            /\ Len(session_state[s].data) = Len(StoreItems)
            /\ \A r \in DOMAIN StoreItems :
                /\ session_state[s].data[r].idx = StoreItems[r].idx
                /\ session_state[s].data[r].row = StoreItems[r].row
                /\ \A c \in GetJsonSerializableCols(StoreItems) :
                    session_state[s].data[r].row[c].k # "str"

\* a cycle of a session that had applied edits before ended in a failure
C16_AfterAppliedAndFailedCycles ==
    /\ CycleOver
    /\ outcome \in {"stopped", "JSONError", "StoreError"}
    /\ hist[cur].applied # {}
    /\ session_state[cur].hasData

(***************************************************************************)
(* C17.  As claimed: when a cycle completes without failure, for every     *)
(* added row of its diff the content the store last received for the       *)
(* row's key in a put_item of the session is the content the diff reports. *)
(***************************************************************************)
C17_StoreHoldsAddedRows ==
    CycleOk =>
        \A x \in DOMAIN edit_info.added_rows :
            LET sig == AddedSig(cur, edit_info.added_rows[x])
            IN  <<sig.key, sig.item>> \in hist[cur].lastPut

(***************************************************************************)
(* C18.  A render cycle whose diff is the diff the session's previous      *)
(* cycle completed without failure issues no store call, leaves the        *)
(* session's applied-edits record as it was, and completes.                *)
(***************************************************************************)
C18_RerunIsIdempotent ==
    /\ [](pc # Idle /\ edit_info \in hist[cur].completed =>
            /\ calls = <<>>
            /\ outcome \in {"running", "ok"})
    /\ [][pc' # Idle /\ edit_info' \in hist[cur'].completed
            /\ session_state[cur'].processed # NoRef =>
                /\ session_state'[cur'].processed = session_state[cur'].processed
                /\ heap'[session_state[cur'].processed] =
                        heap[session_state[cur'].processed]]_vars

\* the diff of a cycle that issued store calls was delivered again, and the
\* second cycle completed
C18_SameDiffAgain ==
    /\ CycleOk
    /\ edit_info \in hist[cur].completed
    /\ EntryCount(edit_info) >= 2
    /\ hist[cur].prev # {}

(***************************************************************************)
(* C19.  In every state, what a session's applied-edits record holds was   *)
(* applied by a store call of that session that returned: the edited-rows  *)
(* bucket holds, per position, the content of the session's last           *)
(* modify_item that returned for the row's key, every added-row            *)
(* representation is that of a put_item of the session that returned, and  *)
(* the deleted-rows bucket holds the keys of the session's del_item calls  *)
(* that returned.                                                          *)
(***************************************************************************)
C19_RecordedOnlyIfApplied ==
    \A s \in Sessions : session_state[s].processed # NoRef =>
        LET rec == Processed(s)
            returned == hist[s].applied
        IN  /\ {<<IndexVal(Df(s), e[1]), e[2]>> : e \in rec.edited_rows} = hist[s].lastEdit
            /\ hist[s].lastEdit \subseteq
                    {<<sig.key, sig.item>> : sig \in {g \in returned : g.op = "modify_item"}}
            /\ {rec.added_rows[x] : x \in DOMAIN rec.added_rows} =
                    {AddedRowRepr(sig.item) : sig \in {g \in returned : g.op = "put_item"}}
            /\ {rec.deleted_rows[x] : x \in DOMAIN rec.deleted_rows} =
                    {sig.key : sig \in {g \in returned : g.op = "del_item"}}

\* a store call failed after another had returned in the same cycle
C19_FailedCallAfterRecordedOne ==
    /\ CycleOver
    /\ outcome = "StoreError"
    /\ Len(calls) >= 2
====
